---- MODULE Spec2Model ----
(***************************************************************************)
(* Model of the CSV handler of src/src/main.rs: the CSVData dataset, its   *)
(* load (from_file) and save (to_file), the four CSVManipulation           *)
(* operations (display, paginate, modify, delete) and the driver main().   *)
(*                                                                         *)
(* Text is modelled as a sequence of one-character strings, so that        *)
(* splitting, trimming, quoting, joining and padding are computed and not  *)
(* assumed.  A file is the sequence of its characters, line breaks         *)
(* included.                                                               *)
(***************************************************************************)
EXTENDS Integers, Sequences, FiniteSets, TLC

VARIABLES
    pc,               \* position of the control flow
    src,              \* the file at read_path: [readable, bytes]
    dst,              \* the file at write_path: [exists, bytes]
    dst0,             \* the file at write_path when the run started
    args,             \* the parsed command line: [write_path, command]
    overflow_checks,  \* build profile: TRUE = arithmetic overflow panics
    csv_data,         \* the CSVData value: [data, rows, cols]
    stdout,           \* the lines printed by the last call
    last,             \* the last call: its arguments, result and the dataset before it
    save_log,         \* the datasets handed to to_file, in order
    reloaded          \* the CSVData loaded back from the written file

vars == <<pc, src, dst, dst0, args, overflow_checks, csv_data, stdout, last,
          save_log, reloaded>>

----------------------------------------------------------------------------
(* Bounds of the model.                                                    *)

\* Most lines of a source file of the operation-level specification.
MaxRows == 2

\* Most values passed to one modify call.
MaxVals == 2

\* Most characters of a source file of the round-trip specification.
MaxFileLen == 4

\* Width in bits of the modelled usize.  The program's usize has 64 bits;
\* the only thing the code does with a wrapped value is to compare it with
\* the number of rows (skip / take), so any width whose largest values
\* exceed every row count behaves alike.
UsizeBits == 12

UsizeModulus == 2 ^ UsizeBits
UsizeMax == UsizeModulus - 1

----------------------------------------------------------------------------
(* Text helpers.                                                           *)

DQ == "\""
LF == "\n"
CR == "\r"
COMMA == ","
SP == " "

\* char::is_whitespace, restricted to the characters of the model.
WhiteSpace == {SP, CR, "\t"}

Max2(a, b) == IF a >= b THEN a ELSE b

SetMax(S) == CHOOSE m \in S : \A x \in S : x <= m

RECURSIVE TrimStart(_)
TrimStart(s) ==
    IF s = <<>> THEN <<>>
    ELSE IF Head(s) \in WhiteSpace THEN TrimStart(Tail(s))
    ELSE s

RECURSIVE TrimEnd(_)
TrimEnd(s) ==
    IF s = <<>> THEN <<>>
    ELSE IF s[Len(s)] \in WhiteSpace THEN TrimEnd(SubSeq(s, 1, Len(s) - 1))
    ELSE s

\* str::trim
Trim(s) == TrimEnd(TrimStart(s))

\* str::split(c): the pieces between the occurrences of c; always at least one piece.
RECURSIVE SplitAcc(_, _, _)
SplitAcc(s, c, piece) ==
    IF s = <<>> THEN <<piece>>
    ELSE IF Head(s) = c THEN <<piece>> \o SplitAcc(Tail(s), c, <<>>)
    ELSE SplitAcc(Tail(s), c, Append(piece, Head(s)))

Split(s, c) == SplitAcc(s, c, <<>>)

\* [String]::join(sep)
RECURSIVE Join(_, _)
Join(pieces, sep) ==
    IF pieces = <<>> THEN <<>>
    ELSE IF Len(pieces) = 1 THEN pieces[1]
    ELSE pieces[1] \o sep \o Join(Tail(pieces), sep)

\* str::repeat
Repeat(c, n) == [i \in 1..n |-> c]

\* format!("\"{}\"", v)
Quote(v) == <<DQ>> \o v \o <<DQ>>

\* BufRead::lines: each line ends at a line feed, which is dropped together
\* with a carriage return right before it; a last line without a line feed
\* is a line too, and keeps a trailing carriage return.
StripEol(l) ==
    IF l # <<>> /\ l[Len(l)] = CR THEN SubSeq(l, 1, Len(l) - 1) ELSE l

RECURSIVE LinesAcc(_, _)
LinesAcc(bytes, line) ==
    IF bytes = <<>> THEN (IF line = <<>> THEN <<>> ELSE <<line>>)
    ELSE IF Head(bytes) = LF THEN <<StripEol(line)>> \o LinesAcc(Tail(bytes), <<>>)
    ELSE LinesAcc(Tail(bytes), Append(line, Head(bytes)))

Lines(bytes) == LinesAcc(bytes, <<>>)

----------------------------------------------------------------------------
(* CSVData: load and save.                                                 *)

CSVData(data, rows, cols) == [data |-> data, rows |-> rows, cols |-> cols]

\* The value csv_data holds while no dataset exists.
NoData == CSVData(<<>>, 0, 0)

\* line 111: the cells of one line.
ParseRow(line) ==
    LET pieces == Split(line, COMMA)
    IN  [i \in 1..Len(pieces) |-> Trim(pieces[i])]

\* CSVData::from_file on a file that can be read.
from_file(bytes) ==
    LET lines == Lines(bytes)
        data  == [i \in 1..Len(lines) |-> ParseRow(lines[i])]
    IN  CSVData(data, Len(lines), IF Len(lines) = 0 THEN 0 ELSE Len(data[1]))

\* CSVData::to_file: the bytes written by one writeln! per row.
RECURSIVE WriteRows(_)
WriteRows(data) ==
    IF data = <<>> THEN <<>>
    ELSE Join(Head(data), <<COMMA>>) \o <<LF>> \o WriteRows(Tail(data))

\* The ways the file system can answer to_file: every call succeeds; or
\* File::create fails; or a writeln! fails after `flushed` rows reached the
\* file; or the rows still in the BufWriter when it is dropped fail to reach
\* the file, which the drop does not report.
IoOutcomes(d) ==
    {[kind |-> "ok", flushed |-> Len(d.data)], [kind |-> "create_err", flushed |-> 0]}
    \cup {[kind |-> k, flushed |-> n] : k \in {"write_err", "drop_err"},
                                       n \in 0..(Len(d.data) - 1)}

\* Mutant of to_file: write! for writeln!, the rows are written without line ends.
to_file_noeol(d, file, io) ==
    IF io.kind = "create_err" THEN [res |-> "IoError", file |-> file]
    ELSE [res  |-> IF io.kind = "write_err" THEN "IoError" ELSE "Ok",
          file |-> [exists |-> TRUE,
                    bytes |-> Join([i \in 1..io.flushed |-> Join(d.data[i], <<COMMA>>)], <<>>)]]

\* CSVData::to_file on the file `file` under the outcome `io`: the result and
\* the file afterwards.  File::create truncates before anything is written.
to_file(d, file, io) ==
    IF io.kind = "create_err" THEN [res |-> "IoError", file |-> file]
    ELSE [res  |-> IF io.kind = "write_err" THEN "IoError" ELSE "Ok",
          file |-> [exists |-> TRUE, bytes |-> WriteRows(SubSeq(d.data, 1, io.flushed))]]

NoFile == [exists |-> FALSE, bytes |-> <<>>]

NoCall == [op |-> "none", res |-> "Ok", before |-> NoData,
           row_index |-> 0, col_index |-> <<>>, values |-> <<>>,
           start |-> 0, end |-> 0, io |-> "none"]

----------------------------------------------------------------------------
(* usize arithmetic.  An overflowing operation panics when the build has   *)
(* overflow checks (the dev profile) and wraps when it has not (release).  *)

Overflow == 0 - 1

usize_add(a, b, oc) ==
    IF a + b <= UsizeMax THEN a + b
    ELSE IF oc THEN Overflow ELSE a + b - UsizeModulus

usize_sub(a, b, oc) ==
    IF a >= b THEN a - b
    ELSE IF oc THEN Overflow ELSE a - b + UsizeModulus

----------------------------------------------------------------------------
(* Rendering.                                                              *)

\* lines 136-138: one row's cells folded into the widths; columns_width[i]
\* panics when the row has more cells than columns_width has entries.
RECURSIVE WidthRow(_, _, _)
WidthRow(cw, row, i) ==
    IF cw.panic \/ i > Len(row) THEN cw
    ELSE IF i > Len(cw.w) THEN [cw EXCEPT !.panic = TRUE]
    ELSE WidthRow([cw EXCEPT !.w[i] = Max2(@, Len(row[i]))], row, i + 1)

RECURSIVE WidthRows(_, _)
WidthRows(cw, data) ==
    IF data = <<>> \/ cw.panic THEN cw
    ELSE WidthRows(WidthRow(cw, Head(data), 1), Tail(data))

\* Mutant of calculate_max_col_width: columns_width sized by the longest row
\* instead of self.cols, so that no index is out of bounds.
calculate_max_col_width_longest(d) ==
    LET n == IF d.data = <<>> THEN d.cols
             ELSE Max2(d.cols, CHOOSE m \in {Len(d.data[r]) : r \in 1..Len(d.data)} :
                                  \A r \in 1..Len(d.data) : Len(d.data[r]) <= m)
    IN  WidthRows([panic |-> FALSE, w |-> [i \in 1..n |-> 0]], d.data)

\* CSVData::calculate_max_col_width: [panic, w]
calculate_max_col_width(d) ==
    WidthRows([panic |-> FALSE, w |-> [i \in 1..d.cols |-> 0]], d.data)

\* lines 146-149: the padded cells of a row, up to the first cell that panics
\* (an index past columns_width, or a width smaller than the cell: the
\* subtraction overflows, and a wrapped padding length cannot be allocated).
RECURSIVE FormatCells(_, _, _, _)
FormatCells(row, columns_width, i, acc) ==
    IF i > Len(row) THEN [panic |-> "none", cells |-> acc]
    ELSE IF i > Len(columns_width) THEN [panic |-> "PanicIndexOutOfBounds", cells |-> acc]
    ELSE IF columns_width[i] < Len(row[i]) THEN [panic |-> "PanicOverflow", cells |-> acc]
    ELSE FormatCells(row, columns_width, i + 1,
                     Append(acc, row[i] \o Repeat(SP, columns_width[i] - Len(row[i]))))

\* CSVData::format_row: [panic, line]
format_row(row, columns_width) ==
    LET f == FormatCells(row, columns_width, 1, <<>>)
    IN  [panic |-> f.panic, line |-> Join(f.cells, <<"|", SP>>)]

\* for row in ... { println!("{}", self.format_row(row, &columns_width)) }
RECURSIVE PrintRows(_, _, _)
PrintRows(rows, columns_width, out) ==
    IF rows = <<>> THEN [res |-> "Ok", out |-> out]
    ELSE LET f == format_row(Head(rows), columns_width)
         IN  IF f.panic # "none" THEN [res |-> f.panic, out |-> out]
             ELSE PrintRows(Tail(rows), columns_width, Append(out, f.line))

\* Iterator::skip and Iterator::take on a slice
Skip(s, n) == SubSeq(s, n + 1, Len(s))
Take(s, n) == SubSeq(s, 1, IF n <= Len(s) THEN n ELSE Len(s))

\* CSVManipulation::display: [res, out]
display(d) ==
    LET columns_width == calculate_max_col_width(d)
    IN  IF columns_width.panic THEN [res |-> "PanicIndexOutOfBounds", out |-> <<>>]
        ELSE PrintRows(d.data, columns_width.w, <<>>)

\* CSVManipulation::paginate: [res, out]
paginate(d, start, end, oc) ==
    LET columns_width == calculate_max_col_width(d)
        buffer_end    == usize_add(end, 1, oc)
        skip_n        == usize_sub(start, 1, oc)
        take_n        == usize_sub(buffer_end, start, oc)
    IN  IF columns_width.panic THEN [res |-> "PanicIndexOutOfBounds", out |-> <<>>]
        ELSE IF buffer_end = Overflow \/ skip_n = Overflow \/ take_n = Overflow
             THEN [res |-> "PanicOverflow", out |-> <<>>]
        ELSE PrintRows(Take(Skip(d.data, skip_n), take_n), columns_width.w, <<>>)

----------------------------------------------------------------------------
(* Mutation.                                                               *)

\* Mutant of modify: the column is checked against self.cols instead of the
\* length of the target row; the assignment past a shorter row panics.
modify_col_count(d, row_index, col_index, values) ==
    IF row_index = 0 \/ row_index > Len(d.data)
    THEN [res |-> "RowIndexOutOfBound", csv |-> d]
    ELSE IF col_index # <<>> /\ Len(values) = 1
    THEN LET index == col_index[1]
         IN  IF index = 0 \/ index > d.cols
             THEN [res |-> "ColumnIndexOutOfBound", csv |-> d]
             ELSE IF index > Len(d.data[row_index])
             THEN [res |-> "PanicIndexOutOfBounds", csv |-> d]
             ELSE [res |-> "Ok",
                   csv |-> [d EXCEPT !.data[row_index][index] = Quote(values[1])]]
    ELSE IF col_index = <<>>
    THEN IF Len(values) = Len(d.data[row_index])
         THEN [res |-> "Ok",
               csv |-> [d EXCEPT !.data[row_index] =
                                     [i \in 1..Len(values) |-> Quote(values[i])]]]
         ELSE [res |-> "ReplacementLengthMismatch", csv |-> d]
    ELSE [res |-> "ValueLengthMismatch", csv |-> d]

\* Mutant of modify: a whole-row edit stores the values as given, unquoted.
modify_unquoted_row(d, row_index, col_index, values) ==
    IF row_index = 0 \/ row_index > Len(d.data)
    THEN [res |-> "RowIndexOutOfBound", csv |-> d]
    ELSE IF col_index # <<>> /\ Len(values) = 1
    THEN LET index == col_index[1]
         IN  IF index = 0 \/ index > Len(d.data[row_index])
             THEN [res |-> "ColumnIndexOutOfBound", csv |-> d]
             ELSE [res |-> "Ok",
                   csv |-> [d EXCEPT !.data[row_index][index] = Quote(values[1])]]
    ELSE IF col_index = <<>>
    THEN IF Len(values) = Len(d.data[row_index])
         THEN [res |-> "Ok", csv |-> [d EXCEPT !.data[row_index] = values]]
         ELSE [res |-> "ReplacementLengthMismatch", csv |-> d]
    ELSE [res |-> "ValueLengthMismatch", csv |-> d]

\* CSVManipulation::modify: [res, csv].  col_index is <<>> for None and
\* <<i>> for Some(i).
modify(d, row_index, col_index, values) ==
    IF row_index = 0 \/ row_index > Len(d.data)
    THEN [res |-> "RowIndexOutOfBound", csv |-> d]
    ELSE IF col_index # <<>> /\ Len(values) = 1
    THEN LET index == col_index[1]
         IN  IF index = 0 \/ index > Len(d.data[row_index])
             THEN [res |-> "ColumnIndexOutOfBound", csv |-> d]
             ELSE [res |-> "Ok",
                   csv |-> [d EXCEPT !.data[row_index][index] = Quote(values[1])]]
    ELSE IF col_index = <<>>
    THEN IF Len(values) = Len(d.data[row_index])
         THEN [res |-> "Ok",
               csv |-> [d EXCEPT !.data[row_index] =
                                     [i \in 1..Len(values) |-> Quote(values[i])]]]
         ELSE [res |-> "ReplacementLengthMismatch", csv |-> d]
    ELSE [res |-> "ValueLengthMismatch", csv |-> d]

\* Vec::remove(i - 1)
Remove(s, i) == SubSeq(s, 1, i - 1) \o SubSeq(s, i + 1, Len(s))

\* Mutant of delete: the bound is the stored row count (self.rows) instead of
\* self.data.len(); Vec::remove past the end panics.
delete_stored_rows(d, row_index) ==
    IF row_index = 0 \/ row_index > d.rows
    THEN [res |-> "RowIndexOutOfBound", csv |-> d]
    ELSE IF row_index > Len(d.data)
    THEN [res |-> "PanicIndexOutOfBounds", csv |-> d]
    ELSE [res |-> "Ok", csv |-> [d EXCEPT !.data = Remove(d.data, row_index)]]

\* CSVManipulation::delete: [res, csv]
delete(d, row_index) ==
    IF row_index = 0 \/ row_index > Len(d.data)
    THEN [res |-> "RowIndexOutOfBound", csv |-> d]
    ELSE [res |-> "Ok", csv |-> [d EXCEPT !.data = Remove(d.data, row_index)]]

IsPanic(res) == res \in {"PanicIndexOutOfBounds", "PanicOverflow", "PanicUnwrap", "PanicError"}

----------------------------------------------------------------------------
(* The operations called on a loaded dataset, in any order and number.     *)

\* The lines the source files are made of: one cell; and two cells with
\* blanks around them, the first in double quotes already, the second empty.
ApiLines == {<<"a", "b">>, <<SP, DQ, "q", DQ, COMMA, SP>>}

\* The most cells of a row.
MaxCols == SetMax({Len(Split(l, COMMA)) : l \in ApiLines})

RECURSIVE Unlines(_)
Unlines(ls) == IF ls = <<>> THEN <<>> ELSE Head(ls) \o <<LF>> \o Unlines(Tail(ls))

RECURSIVE SeqsUpTo(_, _)
SeqsUpTo(S, n) ==
    IF n = 0 THEN {<<>>}
    ELSE LET shorter == SeqsUpTo(S, n - 1)
         IN  shorter \cup {Append(s, c) : s \in {t \in shorter : Len(t) = n - 1}, c \in S}

ApiFiles == {Unlines(ls) : ls \in SeqsUpTo(ApiLines, MaxRows)}

\* Row indices given to the calls: 0, the valid ones, one too many.
Index == 0..(MaxRows + 1)

\* start and end of paginate: the same, and the largest usize.
PageIndex == Index \cup {UsizeMax}

\* Column indices: none, 0, the valid ones, one too many.
ColIndex == {<<>>} \cup {<<i>> : i \in 0..(MaxCols + 1)}

Vals == <<(<<"x">>), (<<"y", "y">>)>>

ValueLists == {[i \in 1..n |-> Vals[((i + k) % 2) + 1]] : n \in 0..MaxVals, k \in 0..1}

Init ==
    /\ pc = "ready"
    /\ src \in {[readable |-> TRUE, bytes |-> b] : b \in ApiFiles}
    /\ dst = NoFile
    /\ dst0 = NoFile
    /\ args = [write_path |-> FALSE, command |-> NoCall]
    /\ overflow_checks \in BOOLEAN
    /\ csv_data = from_file(src.bytes)
    /\ stdout = <<>>
    /\ last = NoCall
    /\ save_log = <<>>
    /\ reloaded = NoData

Display ==
    /\ pc = "ready"
    /\ LET r == display(csv_data)
       IN  /\ stdout' = r.out
           /\ last' = [NoCall EXCEPT !.op = "display", !.res = r.res, !.before = csv_data]
           /\ pc' = IF IsPanic(r.res) THEN "panicked" ELSE "returned"
    /\ UNCHANGED <<src, dst, dst0, args, overflow_checks, csv_data, save_log, reloaded>>

Paginate ==
    /\ pc = "ready"
    /\ \E start \in PageIndex, end \in PageIndex :
          LET r == paginate(csv_data, start, end, overflow_checks)
          IN  /\ stdout' = r.out
              /\ last' = [NoCall EXCEPT !.op = "paginate", !.res = r.res,
                                        !.before = csv_data, !.start = start, !.end = end]
              /\ pc' = IF IsPanic(r.res) THEN "panicked" ELSE "returned"
    /\ UNCHANGED <<src, dst, dst0, args, overflow_checks, csv_data, save_log, reloaded>>

Modify ==
    /\ pc = "ready"
    /\ \E row_index \in Index, col_index \in ColIndex, values \in ValueLists :
          LET r == modify(csv_data, row_index, col_index, values)
          IN  /\ csv_data' = r.csv
              /\ last' = [NoCall EXCEPT !.op = "modify", !.res = r.res,
                                        !.before = csv_data, !.row_index = row_index,
                                        !.col_index = col_index, !.values = values]
    /\ stdout' = <<>>
    /\ pc' = "returned"
    /\ UNCHANGED <<src, dst, dst0, args, overflow_checks, save_log, reloaded>>

Delete ==
    /\ pc = "ready"
    /\ \E row_index \in Index :
          LET r == delete(csv_data, row_index)
          IN  /\ csv_data' = r.csv
              /\ last' = [NoCall EXCEPT !.op = "delete", !.res = r.res,
                                        !.before = csv_data, !.row_index = row_index]
    /\ stdout' = <<>>
    /\ pc' = "returned"
    /\ UNCHANGED <<src, dst, dst0, args, overflow_checks, save_log, reloaded>>

\* The call has returned to its caller, which is done with the result and
\* goes on to the next call.  A panic does not return.
Return ==
    /\ pc = "returned"
    /\ pc' = "ready"
    /\ last' = NoCall
    /\ stdout' = <<>>
    /\ UNCHANGED <<src, dst, dst0, args, overflow_checks, csv_data, save_log, reloaded>>

Next == Display \/ Paginate \/ Modify \/ Delete \/ Return

Spec == Init /\ [][Next]_vars

----------------------------------------------------------------------------
(* main(): one run of the program on a parsed command line.                *)

Commands ==
    {[NoCall EXCEPT !.op = "display"]}
    \cup {[NoCall EXCEPT !.op = "paginate", !.start = st, !.end = en] :
             st \in PageIndex, en \in PageIndex}
    \cup {[NoCall EXCEPT !.op = "delete", !.row_index = r] : r \in Index}
    \cup {[NoCall EXCEPT !.op = "modify", !.row_index = r, !.col_index = c, !.values = v] :
             r \in Index, c \in ColIndex, v \in ValueLists}

\* What the destination may hold before the run.
OldFile == [exists |-> TRUE, bytes |-> <<"o", "l", "d", LF>>]

InitMain ==
    /\ pc = "start"
    /\ src \in {[readable |-> TRUE, bytes |-> b] : b \in ApiFiles}
               \cup {[readable |-> FALSE, bytes |-> <<>>]}
    /\ dst \in {NoFile, OldFile}
    /\ dst0 = dst
    /\ args \in [write_path : BOOLEAN, command : Commands]
    /\ overflow_checks \in BOOLEAN
    /\ csv_data = NoData
    /\ stdout = <<>>
    /\ last = NoCall
    /\ save_log = <<>>
    /\ reloaded = NoData

\* lines 239-256: the match on args.command: [res, csv, out]
run_command(d, command, oc) ==
    IF command.op = "display"
    THEN LET r == display(d) IN [res |-> r.res, csv |-> d, out |-> r.out]
    ELSE IF command.op = "paginate"
    THEN LET r == paginate(d, command.start, command.end, oc)
         IN  [res |-> r.res, csv |-> d, out |-> r.out]
    ELSE IF command.op = "delete"
    THEN LET r == delete(d, command.row_index)
         IN  [res |-> r.res, csv |-> r.csv, out |-> <<>>]
    ELSE LET r == modify(d, command.row_index, command.col_index, command.values)
         IN  [res |-> r.res, csv |-> r.csv, out |-> <<>>]

\* Mutant of AfterCommand: the error is reported like the one of to_file
\* (lines 261-263) and the run goes on.
AfterCommand_report(res) ==
    IF res \in {"PanicIndexOutOfBounds", "PanicOverflow"} THEN "panicked" ELSE "command_done"

\* lines 243-245 and 252-254: if let Err(e) = ... { panic!(...) }
AfterCommand(res) == IF res = "Ok" THEN "command_done" ELSE "panicked"

\* line 238: CSVData::from_file(args.read_path).unwrap()
MainLoad ==
    /\ pc = "start"
    /\ IF src.readable
       THEN /\ csv_data' = from_file(src.bytes)
            /\ pc' = "loaded"
            /\ last' = last
       ELSE /\ csv_data' = csv_data
            /\ pc' = "panicked"
            /\ last' = [NoCall EXCEPT !.op = "from_file", !.res = "PanicUnwrap"]
    /\ UNCHANGED <<src, dst, dst0, args, overflow_checks, stdout, save_log, reloaded>>

\* lines 239-256
MainCommand ==
    /\ pc = "loaded"
    /\ LET r == run_command(csv_data, args.command, overflow_checks)
       IN  /\ csv_data' = r.csv
           /\ stdout' = r.out
           /\ last' = [args.command EXCEPT !.res = r.res, !.before = csv_data]
           /\ pc' = AfterCommand(r.res)
    /\ UNCHANGED <<src, dst, dst0, args, overflow_checks, save_log, reloaded>>

\* lines 258-260: no write_path, return
MainReturn ==
    /\ pc = "command_done"
    /\ ~args.write_path
    /\ pc' = "exit"
    /\ UNCHANGED <<src, dst, dst0, args, overflow_checks, csv_data, stdout, last,
                   save_log, reloaded>>

\* lines 261-263: csv_data.to_file(path); an error is printed
MainSave ==
    /\ pc = "command_done"
    /\ args.write_path
    /\ \E io \in IoOutcomes(csv_data) :
          LET r == to_file(csv_data, dst, io)
          IN  /\ dst' = r.file
              /\ stdout' = IF r.res = "Ok" THEN stdout
                           ELSE Append(stdout, <<"Error occured while wriing to file">>)
              /\ last' = [last EXCEPT !.io = io.kind]
    /\ save_log' = Append(save_log, csv_data.data)
    /\ pc' = "exit"
    /\ UNCHANGED <<src, dst0, args, overflow_checks, csv_data, reloaded>>

NextMain == MainLoad \/ MainCommand \/ MainReturn \/ MainSave

SpecMain == InitMain /\ [][NextMain]_vars

----------------------------------------------------------------------------
(* Round trip: load, save at once, load the saved file.                    *)

FileChar == {"a", SP, COMMA, LF, CR}

InitRT ==
    /\ pc = "start"
    /\ src \in {[readable |-> TRUE, bytes |-> b] : b \in SeqsUpTo(FileChar, MaxFileLen)}
    /\ dst = NoFile
    /\ dst0 = NoFile
    /\ args = [write_path |-> TRUE, command |-> NoCall]
    /\ overflow_checks = TRUE
    /\ csv_data = NoData
    /\ stdout = <<>>
    /\ last = NoCall
    /\ save_log = <<>>
    /\ reloaded = NoData

\* CSVData::from_file(read_path)
RTLoad ==
    /\ pc = "start"
    /\ csv_data' = from_file(src.bytes)
    /\ pc' = "loaded"
    /\ UNCHANGED <<src, dst, dst0, args, overflow_checks, stdout, last, save_log, reloaded>>

\* csv_data.to_file(write_path), with no call in between
RTSave ==
    /\ pc = "loaded"
    /\ \E io \in IoOutcomes(csv_data) :
          LET r == to_file(csv_data, dst, io)
          IN  /\ dst' = r.file
              /\ last' = [NoCall EXCEPT !.op = "to_file", !.res = r.res,
                                        !.before = csv_data, !.io = io.kind]
              /\ pc' = IF r.res = "Ok" THEN "saved" ELSE "save_failed"
    /\ save_log' = Append(save_log, csv_data.data)
    /\ UNCHANGED <<src, dst0, args, overflow_checks, csv_data, stdout, reloaded>>

\* CSVData::from_file(write_path)
RTReload ==
    /\ pc = "saved"
    /\ reloaded' = from_file(dst.bytes)
    /\ pc' = "reloaded"
    /\ UNCHANGED <<src, dst, dst0, args, overflow_checks, csv_data, stdout, last, save_log>>

NextRT == RTLoad \/ RTSave \/ RTReload

SpecRT == InitRT /\ [][NextRT]_vars

----------------------------------------------------------------------------
(* Properties.  `last` is the call that was made last, `last.before` the   *)
(* dataset it was made on, csv_data the dataset after it.                  *)

Before == last.before
NRows(d) == Len(d.data)
ValidRow(d, r) == 1 <= r /\ r <= NRows(d)
Min2(a, b) == IF a <= b THEN a ELSE b

\* C1: in every state reachable from a load by modify and delete calls, the
\* stored row count (rows) equals the number of rows held (data.len()).
C1_RowCountInSync == csv_data.rows = NRows(csv_data)

\* C2: delete with a valid row_index succeeds, reduces the stored row count by
\* exactly 1 and removes exactly the row at that position: the rows before it
\* stay, the rows after it move down by one, no cell changes.
C2_DeleteRemovesRow ==
    (last.op = "delete" /\ ValidRow(Before, last.row_index)) =>
        /\ last.res = "Ok"
        /\ csv_data.rows = Before.rows - 1
        /\ NRows(csv_data) = NRows(Before) - 1
        /\ \A i \in 1..NRows(csv_data) :
              csv_data.data[i] = Before.data[IF i < last.row_index THEN i ELSE i + 1]

\* The part of C2 that is about the rows held, without the stored count.
DeleteRemovesRecord ==
    (last.op = "delete" /\ ValidRow(Before, last.row_index)) =>
        /\ last.res = "Ok"
        /\ NRows(csv_data) = NRows(Before) - 1
        /\ csv_data.cols = Before.cols
        /\ \A i \in 1..NRows(csv_data) :
              csv_data.data[i] = Before.data[IF i < last.row_index THEN i ELSE i + 1]

\* C3: modify and delete with a row_index of 0 or past the last row fail with
\* RowIndexOutOfBound and leave the dataset (rows, cells, counts) unchanged.
C3_RowIndexOutOfBound ==
    (last.op \in {"modify", "delete"} /\ ~ValidRow(Before, last.row_index)) =>
        /\ last.res = "RowIndexOutOfBound"
        /\ csv_data = Before

C3_Witness ==
    /\ last.op = "delete"
    /\ NRows(Before) >= 1
    /\ last.row_index = NRows(Before) + 1
    /\ last.res = "RowIndexOutOfBound"
    /\ Before.rows # NRows(Before)

\* C4: modify with a valid row_index fails with ValueLengthMismatch when a
\* column is given and the number of values is not 1, with
\* ColumnIndexOutOfBound when a column is given with one value and the column
\* is 0 or past the end of the target row, and with ReplacementLengthMismatch
\* when no column is given and the number of values is not the length of the
\* target row; each failure leaves the dataset unchanged.
C4_ModifyValidation ==
    (last.op = "modify" /\ ValidRow(Before, last.row_index)) =>
        LET row  == Before.data[last.row_index]
            some == last.col_index # <<>>
            n    == Len(last.values)
        IN  /\ (some /\ n # 1) =>
                  (last.res = "ValueLengthMismatch" /\ csv_data = Before)
            /\ (some /\ n = 1 /\ (last.col_index[1] = 0 \/ last.col_index[1] > Len(row))) =>
                  (last.res = "ColumnIndexOutOfBound" /\ csv_data = Before)
            /\ (~some /\ n # Len(row)) =>
                  (last.res = "ReplacementLengthMismatch" /\ csv_data = Before)

\* A column within col_count but past the end of a shorter target row.
C4_Witness ==
    /\ last.op = "modify"
    /\ ValidRow(Before, last.row_index)
    /\ last.col_index # <<>>
    /\ Len(last.values) = 1
    /\ last.col_index[1] > Len(Before.data[last.row_index])
    /\ last.col_index[1] <= Before.cols
    /\ last.res = "ColumnIndexOutOfBound"

\* The cell c holds v between exactly one pair of double quotes.
WrappedOnce(c, v) ==
    /\ Len(c) = Len(v) + 2
    /\ c[1] = DQ
    /\ c[Len(c)] = DQ
    /\ SubSeq(c, 2, Len(c) - 1) = v

Targeted(r, c) ==
    r = last.row_index /\ (last.col_index = <<>> \/ last.col_index[1] = c)

\* C5: after a successful modify every targeted cell holds the supplied value
\* in exactly one pair of double quotes (also a cell modified before), every
\* other cell is unchanged, and the number of rows and every row's length are
\* unchanged.
C5_ModifyQuotes ==
    (last.op = "modify" /\ last.res = "Ok") =>
        /\ NRows(csv_data) = NRows(Before)
        /\ \A r \in 1..NRows(Before) :
              /\ Len(csv_data.data[r]) = Len(Before.data[r])
              /\ \A c \in 1..Len(Before.data[r]) :
                    IF Targeted(r, c)
                    THEN WrappedOnce(csv_data.data[r][c],
                                     IF last.col_index = <<>> THEN last.values[c]
                                     ELSE last.values[1])
                    ELSE csv_data.data[r][c] = Before.data[r][c]

\* A cell that already held a quoted value is modified again, with another value.
C5_Witness ==
    /\ last.op = "modify"
    /\ last.res = "Ok"
    /\ last.col_index # <<>>
    /\ LET old == Before.data[last.row_index][last.col_index[1]]
       IN  /\ \E i \in 1..Len(Vals) : WrappedOnce(old, Vals[i])
           /\ old # csv_data.data[last.row_index][last.col_index[1]]

\* C6: paginate(start, end) with start = 0, start past the last row or
\* start > end does not panic, prints no rows and leaves the dataset unchanged.
C6_PaginateNeverPanics ==
    (last.op = "paginate"
        /\ (last.start = 0 \/ last.start > NRows(Before) \/ last.start > last.end)) =>
        /\ ~IsPanic(last.res)
        /\ stdout = <<>>
        /\ csv_data = Before

\* The width of column j: the longest cell at j over every row of the dataset.
ColWidth(d, j) ==
    SetMax({0} \cup {Len(d.data[r][j]) : r \in {q \in 1..NRows(d) : Len(d.data[q]) >= j}})

ExpectedLine(row, d) ==
    Join([j \in 1..Len(row) |-> row[j] \o Repeat(SP, ColWidth(d, j) - Len(row[j]))],
         <<"|", SP>>)

\* The lines of the rows at positions start..min(end, number of rows).
ExpectedPage(d, start, end) ==
    LET hi == Min2(end, NRows(d))
    IN  [k \in 1..(IF hi >= start THEN hi - start + 1 ELSE 0) |->
            ExpectedLine(d.data[start + k - 1], d)]

\* C7: for 1 <= start <= end, paginate prints exactly the rows at positions
\* start..min(end, number of rows), in order and once each, padded to the
\* widths taken over every row of the dataset.
C7_PaginateRange ==
    (last.op = "paginate" /\ 1 <= last.start /\ last.start <= last.end) =>
        /\ last.res = "Ok"
        /\ stdout = ExpectedPage(Before, last.start, last.end)

\* What holds of C7: the same, for an end below the largest usize and a
\* dataset with no row longer than col_count.
PaginateRangeInBounds ==
    (last.op = "paginate" /\ 1 <= last.start /\ last.start <= last.end
        /\ last.end < UsizeMax
        /\ \A r \in 1..NRows(Before) : Len(Before.data[r]) <= Before.cols) =>
        /\ last.res = "Ok"
        /\ stdout = ExpectedPage(Before, last.start, last.end)

\* C10: a row with fewer cells than col_count makes the width / format
\* computation of display and paginate index out of bounds.
C10_ShortRowFails ==
    (last.op \in {"display", "paginate"}
        /\ \E r \in 1..NRows(Before) : Len(Before.data[r]) < Before.cols) =>
        last.res = "PanicIndexOutOfBounds"

\* C10 as amended: display and paginate index out of bounds exactly when a
\* row has more cells than col_count, and then print nothing; rows with
\* fewer cells do not fail: display prints every row, each with its own cells.
C10_LongRowFails ==
    (last.op \in {"display", "paginate"}) =>
        /\ last.res = "PanicIndexOutOfBounds" <=>
              \E r \in 1..NRows(Before) : Len(Before.data[r]) > Before.cols
        /\ last.res = "PanicIndexOutOfBounds" => stdout = <<>>
        /\ (last.op = "display" /\ last.res # "PanicIndexOutOfBounds") =>
              /\ last.res = "Ok"
              /\ stdout = [k \in 1..NRows(Before) |-> ExpectedLine(Before.data[k], Before)]

\* display fails on a long row although the dataset also went through a delete.
C10_Witness ==
    /\ last.op = "display"
    /\ last.res = "PanicIndexOutOfBounds"
    /\ \E r \in 1..NRows(Before) : Len(Before.data[r]) > Before.cols

\* display succeeds on a dataset that has a row shorter than col_count.
ShortRowDisplayed ==
    /\ last.op = "display"
    /\ last.res = "Ok"
    /\ \E r \in 1..NRows(Before) : Len(Before.data[r]) < Before.cols

\* C8: the destination is written only after the requested operation has
\* succeeded.  If the load fails or modify / delete returns an error, no save
\* is attempted and the destination is as it was; if the operation succeeds
\* and a destination path was given, the save is attempted, once, with the
\* dataset as it is after the operation; with no destination path nothing is
\* written.
C8_SaveOnlyAfterSuccess ==
    LET succeeded == src.readable /\ last.op = args.command.op /\ last.res = "Ok"
    IN  /\ save_log # <<>> =>
              /\ succeeded
              /\ args.write_path
              /\ pc = "exit"
              /\ save_log = <<csv_data.data>>
              /\ Before = from_file(src.bytes)
              /\ last.op \in {"display", "paginate"} => save_log[1] = Before.data
              /\ last.op = "delete" =>
                    /\ Len(save_log[1]) = NRows(Before) - 1
                    /\ \A i \in 1..Len(save_log[1]) :
                          save_log[1][i] = Before.data[IF i < last.row_index THEN i ELSE i + 1]
              /\ last.op = "modify" =>
                    WrappedOnce(save_log[1][last.row_index]
                                    [IF last.col_index = <<>> THEN 1 ELSE last.col_index[1]],
                                last.values[1])
        /\ save_log = <<>> => dst = dst0
        /\ ~args.write_path => save_log = <<>>
        /\ pc = "exit" => succeeded
        /\ (pc = "exit" /\ args.write_path) => save_log # <<>>
        /\ pc = "panicked" => (save_log = <<>> /\ ~succeeded)
        /\ (pc \in {"loaded", "command_done"} /\ last.op # "none") => succeeded

\* A successful modify was saved over a destination that existed before.
C8_Witness ==
    /\ pc = "exit"
    /\ last.io = "ok"
    /\ last.op = "modify"
    /\ last.res = "Ok"
    /\ dst0.exists
    /\ dst.bytes = WriteRows(csv_data.data)
    /\ dst # dst0

\* A failed delete ended the run with the destination untouched.
FailedCommandNotSaved ==
    /\ pc = "panicked"
    /\ last.op = "delete"
    /\ last.res = "RowIndexOutOfBound"
    /\ args.write_path
    /\ dst = dst0

\* t is s without the white space at its two ends.
IsTrimOf(t, s) ==
    \E a \in 0..Len(s), b \in 0..Len(s) :
        /\ a + b <= Len(s)
        /\ t = SubSeq(s, a + 1, Len(s) - b)
        /\ \A i \in 1..a : s[i] \in WhiteSpace
        /\ \A i \in (Len(s) - b + 1)..Len(s) : s[i] \in WhiteSpace
        /\ t = <<>> \/ (t[1] \notin WhiteSpace /\ t[Len(t)] \notin WhiteSpace)

\* C9: a file loaded and saved at once (every write carried out) is written
\* with as many lines, in the same order, each line made of the trimmed
\* fields of the input line joined by commas; loading the saved file gives a
\* dataset equal to the first.
C9_RoundTrip ==
    /\ (pc \in {"saved", "reloaded"} /\ last.io = "ok") =>
          LET inl  == Lines(src.bytes)
              outl == Lines(dst.bytes)
          IN  /\ Len(outl) = Len(inl)
              /\ \A i \in 1..Len(inl) :
                    LET fi == Split(inl[i], COMMA)
                        fo == Split(outl[i], COMMA)
                    IN  /\ Len(fo) = Len(fi)
                        /\ \A j \in 1..Len(fi) : IsTrimOf(fo[j], fi[j])
    /\ (pc = "reloaded" /\ last.io = "ok") => reloaded = csv_data

\* Two lines, a comma and white space that the load trimmed away.
C9_Witness ==
    /\ pc = "reloaded"
    /\ last.io = "ok"
    /\ Len(Lines(src.bytes)) >= 2
    /\ \E i \in 1..Len(src.bytes) : src.bytes[i] = COMMA
    /\ \E i \in 1..Len(src.bytes) : src.bytes[i] = SP
    /\ reloaded = csv_data
    /\ reloaded.cols = 2

====
